---- MODULE Spec2Model ----
(***************************************************************************)
(* A model of src/index.ts: the top-level script (declarations, the        *)
(* forEach over numbers, console.log(mySize), new Point(1, 2),             *)
(* point.draw()), the class Point (constructor, draw, getDistance) and the *)
(* function calculateTax.                                                  *)
(*                                                                         *)
(* JavaScript values are tagged records: Num(n) is the number n and        *)
(* Undefined is the absent value, so that 0 and undefined are different    *)
(* values; strings, arrays, object literals and references to Point       *)
(* objects are tagged likewise.  Lines of output are TLA+ strings.  The    *)
(* result of calculateTax is a number with one decimal place, kept as an   *)
(* integer count of tenths.                                                *)
(***************************************************************************)
EXTENDS Integers, Sequences, FiniteSets

VARIABLES
    pc,        \* the next top-level statement of the script, or "done"
    fe,        \* numbers.forEach: how many elements the callback has seen
    globals,   \* the script's top-level let bindings
    heap,      \* the Point objects, in order of construction
    made,      \* per object, the argument list its constructor was called with
    output,    \* the lines written to standard output by console.log
    last       \* the most recent call of new Point / draw / getDistance /
               \* calculateTax: its operands and its completion

vars == <<pc, fe, globals, heap, made, output, last>>

----------------------------------------------------------------------------
(* Bounds of the model *)

\* coordinates passed to the constructor by callers: -MaxCoord..MaxCoord
MaxCoord == 1
\* one coordinate of several digits
BigCoord == 120
\* Point objects that callers construct after the script's own
MaxPoints == 1
\* lines of output in all (the script writes two)
MaxOutput == 3
\* incomes passed to calculateTax: -MaxIncome..MaxIncome
MaxIncome == 12
\* tax years passed to calculateTax: DefaultTaxYear +- YearSpan
YearSpan == 2

----------------------------------------------------------------------------
(* Values *)

Undefined == [type |-> "undefined"]
Num(n) == [type |-> "number", val |-> n]
Str(s) == [type |-> "string", str |-> s]
\* an array, an object literal, a reference to the k-th Point object
Arr(es) == [type |-> "array", elems |-> es]
Obj(ps) == [type |-> "object", props |-> ps]
Ref(k) == [type |-> "ref", addr |-> k]
\* a number with one decimal place: t tenths
Tenths(t) == [type |-> "number", tenths |-> t]

\* a call that ends by returning v; any other kind of completion is an
\* exception
Return(v) == [kind |-> "return", value |-> v]

Digit == <<"0", "1", "2", "3", "4", "5", "6", "7", "8", "9">>

\* Number::toString(10) on an integer
RECURSIVE NumberToString(_)
NumberToString(n) ==
    IF n < 0 THEN "-" \o NumberToString(-n)
    ELSE IF n < 10 THEN Digit[n + 1]
    ELSE NumberToString(n \div 10) \o Digit[(n % 10) + 1]

\* ToString, as applied by string concatenation and by console.log
ToString(v) ==
    IF v.type = "undefined" THEN "undefined"
    ELSE IF v.type = "number" THEN NumberToString(v.val)
    ELSE v.str

\* console.log(v): one line appended to standard output
ConsoleLog(out, v) == Append(out, ToString(v))

\* the value of the k-th parameter of a call with the argument list args
Param(args, k) == IF k <= Len(args) THEN args[k] ELSE Undefined

----------------------------------------------------------------------------
(* Script constants *)

SizeSmall == 1
SizeMedium == 2
SizeLarge == 3
Sales == 123456789
DefaultTaxYear == 2022
OldRateTenths == 12
NewRateTenths == 13
numbers == Arr(<<Num(1), Num(2), Num(3)>>)

----------------------------------------------------------------------------
(* function calculateTax(income, taxYear = 2022) *)

\* a plausible slip: the old rate up to and including 2022
calculateTaxOldRateThrough2022(args) ==
    LET income == Param(args, 1).val
        taxYear == IF Param(args, 2) = Undefined THEN DefaultTaxYear
                   ELSE Param(args, 2).val
    IN  IF taxYear <= DefaultTaxYear
        THEN Return(Tenths(income * OldRateTenths))
        ELSE Return(Tenths(income * NewRateTenths))

calculateTax(args) ==
    LET income == Param(args, 1).val
        taxYear == IF Param(args, 2) = Undefined THEN DefaultTaxYear
                   ELSE Param(args, 2).val
    IN  IF taxYear < DefaultTaxYear
        THEN Return(Tenths(income * OldRateTenths))
        ELSE Return(Tenths(income * NewRateTenths))

----------------------------------------------------------------------------
(* class Point *)

\* a plausible slip: a missing coordinate defaults to 0
PointConstructorDefaultsToZero(args) ==
    Return([x |-> IF Param(args, 1) = Undefined THEN Num(0) ELSE Param(args, 1),
            y |-> IF Param(args, 2) = Undefined THEN Num(0) ELSE Param(args, 2)])

\* constructor(x?, y?): this.x = x; this.y = y
PointConstructor(args) == Return([x |-> Param(args, 1), y |-> Param(args, 2)])

\* a plausible slip: the coordinates in the wrong order
drawSwapped(h, out, this) ==
    [heap |-> h,
     output |-> ConsoleLog(out, Str("X: " \o ToString(h[this].y) \o ", Y: "
                                    \o ToString(h[this].x))),
     ret |-> Return(Undefined)]

\* a plausible slip: an unset coordinate printed as the empty string
TextOrEmpty(v) == IF v = Undefined THEN "" ELSE ToString(v)
drawOmitsUnset(h, out, this) ==
    [heap |-> h,
     output |-> ConsoleLog(out, Str("X: " \o TextOrEmpty(h[this].x) \o ", Y: "
                                    \o TextOrEmpty(h[this].y))),
     ret |-> Return(Undefined)]

\* draw(): the methods take the heap and the output and give them back,
\* with the call's completion
draw(h, out, this) ==
    [heap |-> h,
     output |-> ConsoleLog(out, Str("X: " \o ToString(h[this].x) \o ", Y: "
                                    \o ToString(h[this].y))),
     ret |-> Return(Undefined)]

\* a plausible slip: the signed difference of the x coordinates
getDistanceSigned(h, out, this, another) ==
    [heap |-> h, output |-> out,
     ret |-> IF h[this].x # Undefined /\ h[another].x # Undefined
             THEN Return(Num(h[this].x.val - h[another].x.val))
             ELSE Return(Undefined)]

\* a plausible slip: the argument is overwritten while computing
getDistanceClobbers(h, out, this, another) ==
    [heap |-> [h EXCEPT ![another] = [x |-> Num(0), y |-> Num(0)]],
     output |-> out, ret |-> Return(Undefined)]

\* getDistance(another): the body is empty
getDistance(h, out, this, another) ==
    [heap |-> h, output |-> out, ret |-> Return(Undefined)]

----------------------------------------------------------------------------
(* Inputs *)

Coords == (-MaxCoord .. MaxCoord) \cup {BigCoord}
CoordValues == {Num(n) : n \in Coords} \cup {Undefined}
CtorArgs == {<<>>} \cup {<<a>> : a \in CoordValues}
                \cup {<<a, b>> : a \in CoordValues, b \in CoordValues}
Incomes == -MaxIncome .. MaxIncome
TaxYears == (DefaultTaxYear - YearSpan) .. (DefaultTaxYear + YearSpan)
TaxArgs == {<<Num(i)>> : i \in Incomes}
              \cup {<<Num(i), Num(t)>> : i \in Incomes, t \in TaxYears}
              \cup {<<Num(i), Undefined>> : i \in Incomes}

NoCall == [op |-> "none", recv |-> 0, arg |-> 0, args |-> <<>>,
           ret |-> Return(Undefined)]
Call(op, recv, arg, args, ret) ==
    [op |-> op, recv |-> recv, arg |-> arg, args |-> args, ret |-> ret]

----------------------------------------------------------------------------
(* The script *)

Init ==
    /\ pc = "L1"
    /\ fe = 0
    /\ globals = [sales |-> Undefined, course |-> Undefined, level |-> Undefined,
                  numbers |-> Undefined, user |-> Undefined, mySize |-> Undefined,
                  employee |-> Undefined, point |-> Undefined]
    /\ heap = <<>>
    /\ made = <<>>
    /\ output = <<>>
    /\ last = NoCall

\* a let declaration: the binding is set, nothing else happens
Declare(at, name, value, next) ==
    /\ pc = at
    /\ globals' = [globals EXCEPT ![name] = value]
    /\ pc' = next
    /\ UNCHANGED <<fe, heap, made, output, last>>

DeclSales == Declare("L1", "sales", Num(Sales), "L2")
DeclCourse == Declare("L2", "course", Str("TypeScript"), "L4")
DeclLevel == Declare("L4", "level", Undefined, "L10")
DeclNumbers == Declare("L10", "numbers", numbers, "L11")

\* a plausible slip: the callback logs the element
ForEachCallbackLogs ==
    /\ pc = "L11"
    /\ fe < Len(globals.numbers.elems)
    /\ fe' = fe + 1
    /\ output' = ConsoleLog(output, globals.numbers.elems[fe + 1])
    /\ UNCHANGED <<pc, globals, heap, made, last>>

\* numbers.forEach(n => n.toExponential): the callback reads a property of
\* n and calls nothing
ForEachCallback ==
    /\ pc = "L11"
    /\ fe < Len(globals.numbers.elems)
    /\ fe' = fe + 1
    /\ UNCHANGED <<pc, globals, heap, made, output, last>>

ForEachReturn ==
    /\ pc = "L11"
    /\ fe = Len(globals.numbers.elems)
    /\ pc' = "L13"
    /\ UNCHANGED <<fe, globals, heap, made, output, last>>

DeclUser == Declare("L13", "user", Arr(<<Num(1), Str("Mosh")>>), "L16")
DeclMySize == Declare("L16", "mySize", Num(SizeMedium), "L17")

LogMySize ==
    /\ pc = "L17"
    /\ output' = ConsoleLog(output, globals.mySize)
    /\ pc' = "L24"
    /\ UNCHANGED <<fe, globals, heap, made, last>>

DeclEmployee ==
    Declare("L24", "employee", Obj([id |-> Num(1), name |-> Str("Mosh")]), "L46")

\* new Point(args): a fresh object at the end of the heap
New(args) ==
    LET r == PointConstructor(args)
    IN  /\ heap' = IF r.kind = "return" THEN Append(heap, r.value) ELSE heap
        /\ made' = IF r.kind = "return" THEN Append(made, args) ELSE made
        /\ last' = Call("new", Len(heap) + 1, 0, args, r)

CallDraw(this) ==
    LET r == draw(heap, output, this)
    IN  /\ heap' = r.heap
        /\ output' = r.output
        /\ last' = Call("draw", this, 0, <<>>, r.ret)

CallGetDistance(this, another) ==
    LET r == getDistance(heap, output, this, another)
    IN  /\ heap' = r.heap
        /\ output' = r.output
        /\ last' = Call("getDistance", this, another, <<>>, r.ret)

\* let point = new Point(1, 2)
NewPoint ==
    /\ pc = "L46"
    /\ New(<<Num(1), Num(2)>>)
    /\ globals' = IF last'.ret.kind = "return"
                  THEN [globals EXCEPT !.point = Ref(Len(heap) + 1)]
                  ELSE globals
    \* an uncaught exception ends the script
    /\ pc' = IF last'.ret.kind = "return" THEN "L47" ELSE "done"
    /\ UNCHANGED <<fe, output>>

\* point.draw()
PointDraw ==
    /\ pc = "L47"
    /\ CallDraw(globals.point.addr)
    /\ pc' = "done"
    /\ UNCHANGED <<fe, globals, made>>

ScriptStep ==
    \/ DeclSales \/ DeclCourse \/ DeclLevel \/ DeclNumbers
    \/ ForEachCallback \/ ForEachReturn
    \/ DeclUser \/ DeclMySize \/ LogMySize \/ DeclEmployee
    \/ NewPoint \/ PointDraw

----------------------------------------------------------------------------
(* Callers of the class, once the script has run *)

Construct ==
    /\ pc = "done"
    /\ Len(heap) < 1 + MaxPoints
    /\ \E args \in CtorArgs : New(args)
    /\ UNCHANGED <<pc, fe, globals, output>>

Draw ==
    /\ pc = "done"
    /\ Len(output) < MaxOutput
    /\ \E this \in DOMAIN heap : CallDraw(this)
    /\ UNCHANGED <<pc, fe, globals, made>>

GetDistance ==
    /\ pc = "done"
    /\ \E this \in DOMAIN heap, another \in DOMAIN heap :
          CallGetDistance(this, another)
    /\ UNCHANGED <<pc, fe, globals, made>>

Next == ScriptStep \/ Construct \/ Draw \/ GetDistance

Spec == Init /\ [][Next]_vars

\* the script is synchronous code: each statement runs when the one before
\* it has finished
FairSpec == Spec /\ WF_vars(ScriptStep)

----------------------------------------------------------------------------
(* Callers of calculateTax: a function declaration is hoisted, so the      *)
(* function can be called in the initial state                             *)

CalculateTax ==
    /\ \E args \in TaxArgs :
          last' = Call("calculateTax", 0, 0, args, calculateTax(args))
    /\ UNCHANGED <<pc, fe, globals, heap, made, output>>

TaxNext == CalculateTax

TaxSpec == Init /\ [][TaxNext]_vars

----------------------------------------------------------------------------
(* Properties *)

\* a call that ends by throwing the error e
Throw(e) == [kind |-> "throw", value |-> e]

\* the last line written to standard output
LastLine == output[Len(output)]

\* a point whose constructor was given the argument list args has both
\* coordinates set
Supplied(args, k) == k <= Len(args) /\ args[k] # Undefined
FullySpecified(i) == Supplied(made[i], 1) /\ Supplied(made[i], 2)

\* the text of the k-th coordinate as the claims state it
CoordText(args, k) ==
    IF Supplied(args, k) THEN NumberToString(args[k].val) ELSE "undefined"

\* the squared distance between the objects i and j
SquaredDistance(i, j) ==
    (made[i][1].val - made[j][1].val) * (made[i][1].val - made[j][1].val)
    + (made[i][2].val - made[j][2].val) * (made[i][2].val - made[j][2].val)

\* C1: a draw() on a point constructed with the numbers (a, b) appends
\* exactly one line to the output, and the line is "X: a, Y: b"; for (1, 2)
\* it is "X: 1, Y: 2" and for (-1, 0) it is "X: -1, Y: 0".
C1_DrawWritesXY ==
    [][(last'.op = "draw" /\ FullySpecified(last'.recv))
        => LET args == made[last'.recv]
           IN  /\ output' = Append(output, "X: " \o NumberToString(args[1].val)
                                       \o ", Y: " \o NumberToString(args[2].val))
               /\ (args = <<Num(1), Num(2)>> => output'[Len(output')] = "X: 1, Y: 2")
               /\ (args = <<Num(-1), Num(0)>>
                      => output'[Len(output')] = "X: -1, Y: 0")]_vars

C1_Witness ==
    /\ pc = "done"
    /\ last.op = "draw"
    /\ made[last.recv] = <<Num(-1), Num(BigCoord)>>
    /\ Len(output) = 3

\* C2: getDistance on two fully specified points returns a number, the
\* Euclidean distance: non-negative, and its square is
\* (x1-x2)^2 + (y1-y2)^2 (from (1,2) to (4,6) it is 5).
C2_DistanceIsEuclidean ==
    (last.op = "getDistance" /\ FullySpecified(last.recv) /\ FullySpecified(last.arg))
        => /\ last.ret.kind = "return"
           /\ last.ret.value.type = "number"
           /\ last.ret.value.val >= 0
           /\ last.ret.value.val * last.ret.value.val
                 = SquaredDistance(last.recv, last.arg)

\* C3: getDistance with an unset coordinate in the receiver or in the
\* argument fails with InvalidOperandError.
C3_UnsetOperandThrows ==
    (last.op = "getDistance"
        /\ ~(FullySpecified(last.recv) /\ FullySpecified(last.arg)))
        => last.ret = Throw("InvalidOperandError")

\* C4: every constructor call returns an object, whatever the number of
\* arguments; a coordinate that was supplied is stored as supplied and one
\* that was not is stored as undefined, which is not the number 0.
C4_UnsuppliedIsUndefined ==
    /\ Len(heap) = Len(made)
    /\ last.op = "new" => (last.ret.kind = "return" /\ last.recv = Len(heap))
    /\ \A i \in DOMAIN heap :
          /\ heap[i].x = (IF Len(made[i]) >= 1 THEN made[i][1] ELSE Undefined)
          /\ heap[i].y = (IF Len(made[i]) >= 2 THEN made[i][2] ELSE Undefined)
          /\ (Len(made[i]) < 1 => heap[i].x # Num(0))
          /\ (Len(made[i]) < 2 => heap[i].y # Num(0))

C4_Witness ==
    /\ last.op = "new"
    /\ last.args = <<Num(0)>>
    /\ heap[last.recv] = [x |-> Num(0), y |-> Undefined]

\* C5: the line drawn for a point with an unset coordinate has the text
\* "undefined" in that coordinate's place; for a point constructed with no
\* arguments the line is "X: undefined, Y: undefined".
C5_UnsetDrawnAsUndefined ==
    (last.op = "draw" /\ ~FullySpecified(last.recv))
        => /\ LastLine = "X: " \o CoordText(made[last.recv], 1)
                            \o ", Y: " \o CoordText(made[last.recv], 2)
           /\ (made[last.recv] = <<>> => LastLine = "X: undefined, Y: undefined")

C5_Witness ==
    /\ last.op = "draw"
    /\ made[last.recv] = <<>>
    /\ Len(output) = 3

\* C6: for fully specified points p1 and p2, p1.getDistance(p2) gives what
\* p2.getDistance(p1) gives.
C6_DistanceSymmetric ==
    (last.op = "getDistance" /\ FullySpecified(last.recv) /\ FullySpecified(last.arg))
        => last.ret = getDistance(heap, output, last.arg, last.recv).ret

C6_Witness ==
    /\ last.op = "getDistance"
    /\ last.recv # last.arg
    /\ FullySpecified(last.recv) /\ FullySpecified(last.arg)
    /\ made[last.recv][1] # made[last.arg][1]

\* C7: for a fully specified point p, p.getDistance(p) returns 0.
C7_DistanceToSelfIsZero ==
    (last.op = "getDistance" /\ last.recv = last.arg /\ FullySpecified(last.recv))
        => last.ret = Return(Num(0))

\* C8: no call of draw or getDistance changes the x or the y of any point,
\* and a call of getDistance writes nothing to the output.
C8_PointsImmutable ==
    [][/\ (last'.op \in {"draw", "getDistance"}
             => /\ DOMAIN heap' = DOMAIN heap
                /\ \A i \in DOMAIN heap : heap'[i] = heap[i])
       /\ (last'.op = "getDistance" => output' = output)]_vars

C8_Witness ==
    /\ last.op = "getDistance"
    /\ last.recv # last.arg
    /\ Len(output) = 3
    /\ \A i \in DOMAIN heap :
          heap[i] = [x |-> Param(made[i], 1), y |-> Param(made[i], 2)]

\* C9: calculateTax(income, taxYear) returns income * 1.2 when
\* taxYear < 2022 and income * 1.3 when taxYear >= 2022, and without a
\* taxYear it returns what it returns for taxYear = 2022, income * 1.3.
C9_TaxRates ==
    last.op = "calculateTax"
        => LET income == last.args[1].val
               given == Len(last.args) >= 2 /\ last.args[2] # Undefined
           IN  /\ last.ret.kind = "return"
               /\ (given /\ last.args[2].val < 2022
                     => last.ret.value.tenths = income * 12)
               /\ (given /\ last.args[2].val >= 2022
                     => last.ret.value.tenths = income * 13)
               /\ (~given
                     => /\ last.ret.value.tenths = income * 13
                        /\ last.ret = calculateTax(<<last.args[1], Num(2022)>>))

C9_Witness ==
    /\ last.op = "calculateTax"
    /\ last.args = <<Num(10)>>
    /\ last.ret = Return(Tenths(130))

\* C10: the script reaches its end, and when it does the output is the two
\* lines "2" and "X: 1, Y: 2"; only console.log(mySize) and point.draw()
\* write, each one line.
C10_ScriptOutput ==
    /\ [][(pc # "done" /\ pc' = "done") => output' = <<"2", "X: 1, Y: 2">>]_vars
    /\ [][(pc \notin {"L17", "L47", "done"}) => output' = output]_vars
    /\ [][(pc \in {"L17", "L47"}) => Len(output') = Len(output) + 1]_vars
    /\ <>(pc = "done")

C10_Witness ==
    /\ pc = "done"
    /\ last.op = "draw"
    /\ globals.point = Ref(last.recv)
    /\ output = <<"2", "X: 1, Y: 2">>

====
